---- MODULE Spec2Model ----
(***************************************************************************)
(* Fraud-detection form application (Streamlit).  Five variants of the     *)
(* same script are modelled: app2, optimized, gdrive, debug, complete.     *)
(* One script run goes cargar_modelo -> component extraction -> form ->    *)
(* validation -> frame preparation -> encoders -> feature selection ->     *)
(* scaler -> predict -> predict_proba -> mostrar_resultado.                *)
(***************************************************************************)
EXTENDS Integers, Sequences, FiniteSets, TLC

(* ------------------------------ bounds --------------------------------- *)
\* datetime.now() takes values 0..MaxClock
MaxClock == 1
\* executions of the body of cargar_modelo that the model follows
MaxFetch == 2

(* ------------------------------ values --------------------------------- *)
\* a cell of a DataFrame / an entry of the form dictionary
Num(n) == [k |-> "num", n |-> n, s |-> ""]
Str(s) == [k |-> "str", n |-> 0, s |-> s]
Time(n) == [k |-> "time", n |-> n, s |-> ""]

RECURSIVE SeqSum(_)
SeqSum(q) == IF q = <<>> THEN 0 ELSE Head(q) + SeqSum(Tail(q))

Range(q) == {q[i] : i \in 1..Len(q)}

\* index of the first occurrence of x in q, 0 when absent
IndexOf(q, x) ==
    IF x \in Range(q) THEN CHOOSE i \in 1..Len(q) : q[i] = x /\ \A j \in 1..(i-1) : q[j] # x
    ELSE 0

Variants == {"app2", "optimized", "gdrive", "debug", "complete"}
Validating == {"gdrive", "debug", "complete"}
WithProba == {"gdrive", "debug", "complete"}
Preparing == {"debug", "complete"}

ComponentKeys == <<"modelo", "scaler", "encoders", "selected_features">>

(* ------------------------- the model artifact -------------------------- *)
\* selected_features lists the trained classifier may declare
FeatureLists ==
    { <<"category", "amt", "unix_time">>,
      <<"zip", "category">>,
      <<"amount", "category", "lat">>,
      <<"amt", "city_pop">> }

\* encoders: a dict, iterated in insertion order; classes_ of a fitted
\* LabelEncoder is sorted
EncCategory == [col |-> "category", classes |-> <<"grocery_pos", "shopping_pos">>]
EncMerchant == [col |-> "merchant", classes |-> <<"acme">>]
EncGender == [col |-> "gender", classes |-> <<"F", "M">>]
EncoderMaps == { <<EncCategory>>, <<EncCategory, EncMerchant>>, <<EncGender, EncCategory>> }

\* fitted per-column statistics of a scaler of the given width
ScalerOf(w) ==
    [n_features_in |-> w,
     mean  |-> [i \in 1..w |-> IF i = 1 THEN 1 ELSE 0],
     scale |-> [i \in 1..w |-> IF i = 2 THEN 2 ELSE 1]]

ClassifierOf(classes, proba, w) ==
    [classes |-> classes, has_proba |-> proba, n_features_in |-> w]

MkBundle(sf, enc, sw, classes, proba, cw) ==
    [keys |-> Range(ComponentKeys),
     modelo |-> ClassifierOf(classes, proba, cw),
     scaler |-> ScalerOf(sw),
     encoders |-> enc,
     selected_features |-> sf]

\* artifacts a training run can have produced
CompleteBundles ==
    UNION { { MkBundle(sf, enc, Len(sf), <<0, 1>>, TRUE, Len(sf)) : enc \in EncoderMaps }
            \cup { MkBundle(sf, <<EncCategory>>, Len(sf) + 1, <<0, 1>>, TRUE, Len(sf) + 1),
                   MkBundle(sf, <<EncCategory>>, Len(sf), <<0, 1>>, TRUE, Len(sf) + 1),
                   MkBundle(sf, <<EncCategory>>, Len(sf), <<0, 1>>, FALSE, Len(sf)),
                   MkBundle(sf, <<EncCategory>>, Len(sf), <<0>>, TRUE, Len(sf)),
                   MkBundle(sf, <<EncCategory>>, Len(sf), <<0, 1, 2>>, TRUE, Len(sf)) }
            : sf \in FeatureLists }

BaseBundle == MkBundle(<<"zip", "category">>, <<EncCategory>>, 2, <<0, 1>>, TRUE, 2)

\* a dict that lacks one of the four components
IncompleteBundles ==
    { [BaseBundle EXCEPT !.keys = Range(ComponentKeys) \ {k}] : k \in Range(ComponentKeys) }

Bundles == CompleteBundles \cup IncompleteBundles

\* what the source holds: nothing reachable, bytes joblib cannot read, or a dict
Artifacts ==
    { [status |-> "unreachable", b |-> BaseBundle],
      [status |-> "corrupt", b |-> BaseBundle] }
    \cup { [status |-> "ok", b |-> b] : b \in Bundles }

(* ------------------------------ the form ------------------------------- *)
Amounts == {0, 250}
Categories == {"grocery_pos", "shopping_pos", "otros"}
Texts == {"", " ", "acme"}
Zips == {"10001", "abc", ""}

\* widget values of the transaction form of app2 / optimized / gdrive / debug
SimpleForms ==
    { [amount |-> a, merchant |-> m, category |-> c, state |-> "NY", city |-> "x",
       zip |-> z, lat |-> 40, long |-> 0 - 74,
       trans_num |-> "", first |-> "", last |-> "", gender |-> "", dob |-> 0,
       job |-> "", street |-> ""]
      : a \in Amounts, m \in Texts, c \in Categories, z \in Zips }

\* widget values of the transaction form of complete
CompleteForms ==
    { [amount |-> a, merchant |-> "", category |-> c, state |-> "NY", city |-> "x",
       zip |-> z, lat |-> 0, long |-> 0,
       trans_num |-> "t1", first |-> f, last |-> "b", gender |-> "M", dob |-> 0,
       job |-> "j", street |-> "s"]
      : a \in Amounts, f \in Texts, c \in Categories, z \in Zips }

FormsOf(v) == IF v = "complete" THEN CompleteForms ELSE SimpleForms

(* ----------------------- pure helpers of the script -------------------- *)
\* datetime.now().timestamp() truncated to int
Timestamp(t) == 1000 + t

\* date.strftime('%Y-%m-%d') on the dates the date_input can return
Strftime(d) == IF d = 0 THEN "1970-01-01" ELSE "2000-01-01"

\* str.strip(): strings made of whitespace only become empty
Strip(s) == IF s \in {"", " ", "  "} THEN "" ELSE s

\* float(str) as numpy applies it to an object column: defined on numerals only
NumericStrings == {"10001", "0"}
ParseFloat(s) == IF s = "10001" THEN 10001 ELSE 0

SimpleKeys ==
    <<"amount", "merchant", "category", "state", "city", "zip",
      "lat", "long", "merch_lat", "merch_long">>

CompleteKeys ==
    <<"amount", "category", "trans_num", "first", "last", "gender", "dob", "job",
      "street", "city", "state", "zip", "trans_date_trans_time", "unix_time", "city_pop">>

\* the dictionary returned by crear_campos_formulario (app2: the dict `data`)
crear_campos_formulario(v, f, t) ==
    IF v = "complete"
    THEN [key \in Range(CompleteKeys) |->
            CASE key = "amount" -> Num(f.amount)
              [] key = "dob" -> Num(f.dob)
              [] key = "trans_date_trans_time" -> Time(t)
              [] key = "unix_time" -> Num(Timestamp(t))
              [] key = "city_pop" -> Num(0)
              [] OTHER -> Str(f[key])]
    ELSE [key \in Range(SimpleKeys) |->
            CASE key = "amount" -> Num(f.amount)
              [] key \in {"lat", "merch_lat"} -> Num(f.lat)
              [] key \in {"long", "merch_long"} -> Num(f.long)
              [] OTHER -> Str(f[key])]

\* the checks of validar_datos_entrada, in source order: <<field, message>>
\* (messages written without their accents)
TextChecks(v) ==
    IF v = "complete"
    THEN << <<"first", "El nombre es requerido">>,
            <<"last", "El apellido es requerido">>,
            <<"zip", "El codigo postal es requerido">>,
            <<"trans_num", "El numero de transaccion es requerido">>,
            <<"street", "La direccion es requerida">>,
            <<"city", "La ciudad es requerida">>,
            <<"job", "La ocupacion es requerida">> >>
    ELSE << <<"merchant", "El nombre del comerciante es requerido">>,
            <<"city", "La ciudad es requerida">>,
            <<"zip", "El codigo postal es requerido">> >>

\* variant of validar_datos_entrada that rejects negative amounts only
validar_datos_entrada_negative(v, d) ==
    LET checks == TextChecks(v)
        failing == SelectSeq(checks, LAMBDA c : Strip(d[c[1]].s) = "")
        texts == [i \in 1..Len(failing) |-> failing[i][2]]
    IN  (IF d["amount"].n < 0 THEN <<"El monto debe ser mayor que 0">> ELSE <<>>) \o texts

validar_datos_entrada(v, d) ==
    LET checks == TextChecks(v)
        failing == SelectSeq(checks, LAMBDA c : Strip(d[c[1]].s) = "")
        texts == [i \in 1..Len(failing) |-> failing[i][2]]
    IN  (IF d["amount"].n <= 0 THEN <<"El monto debe ser mayor que 0">> ELSE <<>>) \o texts

DebugColumns ==
    <<"Unnamed: 0", "trans_date_trans_time", "amt", "first", "gender", "city_pop", "dob",
      "unix_time", "merchant", "category", "state", "city", "zip", "lat", "long",
      "merch_lat", "merch_long">>

CompleteColumns ==
    <<"Unnamed: 0", "trans_date_trans_time", "category", "amt", "first", "gender", "zip",
      "city_pop", "dob", "unix_time", "merchant", "last", "street", "city", "state", "job",
      "trans_num">>

\* the one-row DataFrame the encoders are applied to: pd.DataFrame([datos]) in
\* app2 / optimized / gdrive, preparar_datos_para_modelo in debug / complete
preparar_datos_para_modelo(v, d, t) ==
    CASE v = "debug" ->
           [cols |-> DebugColumns,
            val |-> [c \in Range(DebugColumns) |->
                CASE c = "Unnamed: 0" -> Num(0)
                  [] c = "trans_date_trans_time" -> Time(t)
                  [] c = "amt" -> d["amount"]
                  [] c \in {"first", "gender"} -> Str("unknown")
                  [] c = "city_pop" -> Num(0)
                  [] c = "dob" -> Str("1970-01-01")
                  [] c = "unix_time" -> Num(Timestamp(t))
                  [] OTHER -> d[c]]]
      [] v = "complete" ->
           [cols |-> CompleteColumns,
            val |-> [c \in Range(CompleteColumns) |->
                CASE c = "Unnamed: 0" -> Num(0)
                  [] c = "amt" -> d["amount"]
                  [] c = "dob" -> Str(Strftime(d["dob"].n))
                  [] c = "merchant" -> Str("unknown")
                  [] OTHER -> d[c]]]
      [] OTHER ->
           [cols |-> SimpleKeys, val |-> d]

\* frame columns whose value is a constant written in the code, the form
\* having no field for them
defaulted(v) ==
    CASE v = "debug" -> {"Unnamed: 0", "first", "gender", "city_pop", "dob"}
      [] v = "complete" -> {"Unnamed: 0", "merchant", "city_pop"}
      [] OTHER -> {}

\* selected_features entries that are no column of the frame
missing_cols(fr, sf) == SelectSeq(sf, LAMBDA c : c \notin Range(fr.cols))

(* ------------------- the fitted components (opaque) -------------------- *)
\* variant of encoder_transform that gives every known label the code 0
encoder_transform_collapsed(enc, v) ==
    IF v.k = "str" /\ v.s \in Range(enc.classes)
    THEN [ok |-> TRUE, code |-> 0]
    ELSE [ok |-> FALSE, code |-> 0]

\* LabelEncoder.transform on one cell: the position of the label in classes_,
\* ValueError for a label that is not in classes_
encoder_transform(enc, v) ==
    IF v.k = "str" /\ v.s \in Range(enc.classes)
    THEN [ok |-> TRUE, code |-> IndexOf(enc.classes, v.s) - 1]
    ELSE [ok |-> FALSE, code |-> 0]

\* the loop `for columna, encoder in encoders.items()`: encoders whose column
\* is in the frame are applied in dict order; the first error ends the loop.
\* handed lists the <<column, cell>> pairs given to transform.
RECURSIVE aplicar_encoders(_, _, _)
aplicar_encoders(encs, fr, handed) ==
    IF encs = <<>> THEN [ok |-> TRUE, frame |-> fr, handed |-> handed]
    ELSE LET e == Head(encs) IN
         IF e.col \notin Range(fr.cols) THEN aplicar_encoders(Tail(encs), fr, handed)
         ELSE LET r == encoder_transform(e, fr.val[e.col])
                  h == Append(handed, <<e.col, fr.val[e.col]>>)
              IN  IF r.ok
                  THEN aplicar_encoders(Tail(encs),
                                        [fr EXCEPT !.val[e.col] = Num(r.code)], h)
                  ELSE [ok |-> FALSE, frame |-> fr, handed |-> h]

\* variant of seleccionar that keeps the selected columns in frame order
seleccionar_frame_order(fr, sf) ==
    IF missing_cols(fr, sf) # <<>> THEN [ok |-> FALSE, frame |-> fr]
    ELSE [ok |-> TRUE,
          frame |-> [cols |-> SelectSeq(fr.cols, LAMBDA c : c \in Range(sf)),
                     val |-> [c \in Range(sf) |-> fr.val[c]]]]

\* transaccion_prep[selected_features]: KeyError when a name is no column,
\* otherwise the columns named, in the order named
seleccionar(fr, sf) ==
    IF missing_cols(fr, sf) # <<>> THEN [ok |-> FALSE, frame |-> fr]
    ELSE [ok |-> TRUE,
          frame |-> [cols |-> sf, val |-> [c \in Range(sf) |-> fr.val[c]]]]

\* conversion of a cell to float by the scaler's input validation
Numeric(v) == v.k = "num" \/ (v.k = "str" /\ v.s \in NumericStrings)
AsFloat(v) == IF v.k = "num" THEN v.n ELSE ParseFloat(v.s)

\* variant of scaler_transform that pads a short row with zeros and cuts a
\* long one to the width the scaler was fitted on
scaler_transform_padded(sc, fr) ==
    IF \E c \in Range(fr.cols) : ~Numeric(fr.val[c])
    THEN [ok |-> FALSE, row |-> <<>>]
    ELSE [ok |-> TRUE,
          row |-> [i \in 1..sc.n_features_in |->
                     ((IF i <= Len(fr.cols) THEN AsFloat(fr.val[fr.cols[i]]) ELSE 0)
                        - sc.mean[i]) \div sc.scale[i]]]

\* scaler.transform: ValueError on a non-numeric cell or a wrong number of
\* columns, otherwise (x - mean) / scale per column
scaler_transform(sc, fr) ==
    IF Len(fr.cols) # sc.n_features_in \/ \E c \in Range(fr.cols) : ~Numeric(fr.val[c])
    THEN [ok |-> FALSE, row |-> <<>>]
    ELSE [ok |-> TRUE,
          row |-> [i \in 1..Len(fr.cols) |->
                     (AsFloat(fr.val[fr.cols[i]]) - sc.mean[i]) \div sc.scale[i]]]

\* position in classes_ of the class the fitted classifier decides for
decision(m, row) == (SeqSum(row) % Len(m.classes)) + 1

\* modelo.predict(...)[0]: ValueError on a row of the wrong width
modelo_predict(m, row) ==
    IF Len(row) # m.n_features_in THEN [ok |-> FALSE, label |-> 0]
    ELSE [ok |-> TRUE, label |-> m.classes[decision(m, row)]]

\* modelo.predict_proba(...)[0][1], in percent: IndexError when the
\* classifier was fitted on a single class
modelo_predict_proba(m, row) ==
    IF Len(row) # m.n_features_in \/ Len(m.classes) < 2 THEN [ok |-> FALSE, p |-> 0]
    ELSE [ok |-> TRUE, p |-> IF decision(m, row) = 2 THEN 90 ELSE 10]

\* the body of cargar_modelo on a cache miss
cargar_modelo(v, art) ==
    CASE v = "app2" ->
           IF art.status # "ok"
           THEN [raised |-> TRUE, none |-> FALSE, error |-> FALSE, b |-> art.b]
           ELSE [raised |-> FALSE, none |-> FALSE, error |-> FALSE, b |-> art.b]
      [] v \in {"optimized", "gdrive"} ->
           IF art.status # "ok"
           THEN [raised |-> FALSE, none |-> TRUE, error |-> TRUE, b |-> art.b]
           ELSE [raised |-> FALSE, none |-> FALSE, error |-> FALSE, b |-> art.b]
      [] OTHER ->
           IF art.status # "ok" \/ ~({"selected_features", "encoders"} \subseteq art.b.keys)
           THEN [raised |-> FALSE, none |-> TRUE, error |-> TRUE, b |-> art.b]
           ELSE [raised |-> FALSE, none |-> FALSE, error |-> FALSE, b |-> art.b]

(* ------------------------------- state --------------------------------- *)
VARIABLES
    variant,             \* which script is deployed
    artifact,            \* what the model source holds
    cache,               \* st.cache_resource entry of cargar_modelo
    now,                 \* datetime.now()
    fetches,             \* executions of the body of cargar_modelo so far
    loads,               \* of these, the ones that returned a dict
    pc,                  \* position of the current script run
    modelo_components,   \* what cargar_modelo returned to this run
    form,                \* widget values
    submitted,           \* form_submit_button
    datos,               \* dictionary built from the widgets
    transaccion_prep,    \* the one-row frame
    transaccion_scaled,  \* output of scaler.transform
    prediccion,          \* modelo.predict(...)[0]
    probabilidad,        \* None or modelo.predict_proba(...)[0][1]
    display,             \* what this run has put on the page
    trace,               \* stages this run has entered, in order
    failed,              \* the stage that raised in this run, "" if none
    handed,              \* <<column, cell>> pairs given to encoder.transform
    load_outcome,        \* how this run's call of cargar_modelo ended
    last                 \* the previous evaluation that reached the scaler

shared == <<variant, artifact, cache, now, fetches, loads>>
inputs == <<form, submitted, datos>>
work == <<transaccion_prep, transaccion_scaled, prediccion, probabilidad, handed>>
vars == <<shared, pc, modelo_components, inputs, work, display, trace, failed,
          load_outcome, last>>

NoFrame == [cols |-> <<>>, val |-> <<>>]
NoProb == [has |-> FALSE, p |-> 0]
NoCell == [k |-> "none", n |-> 0, s |-> ""]
NoError == [kind |-> "", cols |-> <<>>, value |-> NoCell]
BlankDisplay ==
    [load_error |-> FALSE, crashed |-> FALSE, errores |-> <<>>, warnings |-> <<>>,
     banners |-> {}, prob |-> NoProb, proc_error |-> FALSE, error |-> NoError,
     dumps |-> <<>>, datos |-> <<>>]
NoComponents == [none |-> TRUE, b |-> BaseBundle]
BlankForm == CHOOSE f \in SimpleForms : TRUE
NoLast == [valid |-> FALSE, form |-> BlankForm, row |-> NoFrame]

Init ==
    /\ variant \in Variants
    /\ artifact \in Artifacts
    /\ cache = [filled |-> FALSE, val |-> NoComponents]
    /\ now = 0
    /\ fetches = 0
    /\ loads = 0
    /\ pc = "idle"
    /\ modelo_components = NoComponents
    /\ form = BlankForm
    /\ submitted = FALSE
    /\ datos = <<>>
    /\ transaccion_prep = NoFrame
    /\ transaccion_scaled = <<>>
    /\ prediccion = 0
    /\ probabilidad = NoProb
    /\ display = BlankDisplay
    /\ trace = <<>>
    /\ failed = ""
    /\ handed = <<>>
    /\ load_outcome = "pending"
    /\ last = NoLast

\* the components this run works with
modelo == modelo_components.b.modelo
scaler == modelo_components.b.scaler
encoders == modelo_components.b.encoders
selected_features == modelo_components.b.selected_features

\* variant of next_stage that reduces the frame before the encoders run
next_stage_select_first(v, stage) ==
    CASE stage = "prepare" -> "select"
      [] stage = "select" -> "encode"
      [] stage = "encode" -> "scale"
      [] stage = "scale" -> "predict"
      [] stage = "predict" -> IF v \in WithProba THEN "proba" ELSE "show"
      [] stage = "proba" -> "show"
      [] OTHER -> "idle"

\* the statement order of the try block of main: the stage that follows a
\* stage that did not raise
next_stage(v, stage) ==
    CASE stage = "prepare" -> "encode"
      [] stage = "encode" -> "select"
      [] stage = "select" -> "scale"
      [] stage = "scale" -> "predict"
      [] stage = "predict" -> IF v \in WithProba THEN "proba" ELSE "show"
      [] stage = "proba" -> "show"
      [] OTHER -> "idle"

(* ------------------------------ actions -------------------------------- *)
\* time passes between two script runs
Tick ==
    /\ pc = "idle"
    /\ now < MaxClock
    /\ now' = now + 1
    /\ UNCHANGED <<variant, artifact, cache, fetches, loads, pc, modelo_components,
                   inputs, work, display, trace, failed, load_outcome, last>>

\* Streamlit starts (re)running the script from the top
StartRun ==
    /\ pc = "idle"
    /\ cache.filled \/ fetches < MaxFetch
    /\ pc' = "cargar_modelo"
    /\ modelo_components' = NoComponents
    /\ form' = BlankForm
    /\ submitted' = FALSE
    /\ datos' = <<>>
    /\ transaccion_prep' = NoFrame
    /\ transaccion_scaled' = <<>>
    /\ prediccion' = 0
    /\ probabilidad' = NoProb
    /\ display' = BlankDisplay
    /\ trace' = <<>>
    /\ failed' = ""
    /\ handed' = <<>>
    /\ load_outcome' = "pending"
    /\ UNCHANGED <<shared, last>>

\* variant of CargarModelo that keeps a returned None out of the cache
CargarModelo_none_uncached ==
    /\ pc = "cargar_modelo"
    /\ IF cache.filled
       THEN /\ modelo_components' = cache.val
            /\ \E replay \in BOOLEAN :
                 display' = [display EXCEPT !.load_error = cache.val.none /\ replay]
            /\ load_outcome' = IF cache.val.none THEN "hit_none" ELSE "hit_ok"
            /\ pc' = "extract"
            /\ UNCHANGED <<cache, fetches, loads>>
       ELSE LET r == cargar_modelo(variant, artifact) IN
            /\ fetches' = fetches + 1
            /\ IF r.raised
               THEN /\ display' = [display EXCEPT !.load_error = TRUE]
                    /\ load_outcome' = "miss_failed"
                    /\ pc' = "idle"
                    /\ UNCHANGED <<cache, loads, modelo_components>>
               ELSE /\ modelo_components' = [none |-> r.none, b |-> r.b]
                    /\ cache' = IF r.none THEN cache
                                ELSE [filled |-> TRUE, val |-> [none |-> r.none, b |-> r.b]]
                    /\ loads' = IF r.none THEN loads ELSE loads + 1
                    /\ display' = [display EXCEPT !.load_error = r.error]
                    /\ load_outcome' = IF r.none THEN "miss_failed" ELSE "miss_ok"
                    /\ pc' = "extract"
    /\ UNCHANGED <<variant, artifact, now, inputs, work, trace, failed, last>>

\* variant of CargarModelo without the cache: the body runs in every run
CargarModelo_uncached ==
    /\ pc = "cargar_modelo"
    /\ LET r == cargar_modelo(variant, artifact) IN
         /\ fetches' = fetches + 1
         /\ IF r.raised
            THEN /\ display' = [display EXCEPT !.load_error = TRUE]
                 /\ load_outcome' = "miss_failed"
                 /\ pc' = "idle"
                 /\ UNCHANGED <<cache, loads, modelo_components>>
            ELSE /\ modelo_components' = [none |-> r.none, b |-> r.b]
                 /\ cache' = [filled |-> TRUE, val |-> [none |-> r.none, b |-> r.b]]
                 /\ loads' = IF r.none THEN loads ELSE loads + 1
                 /\ display' = [display EXCEPT !.load_error = r.error]
                 /\ load_outcome' = IF r.none THEN "miss_failed" ELSE "miss_ok"
                 /\ pc' = "extract"
    /\ UNCHANGED <<variant, artifact, now, inputs, work, trace, failed, last>>

\* the call cargar_modelo() under @st.cache_resource: a cached return value
\* is handed back without running the body; a body that returns (a dict or
\* None) has its return value cached, a body that raises caches nothing.
\* In app2 the exception reaches the except clause of main.  Whether the
\* messages of the body are shown again on a cache hit is left open.
CargarModelo ==
    /\ pc = "cargar_modelo"
    /\ IF cache.filled
       THEN /\ modelo_components' = cache.val
            /\ \E replay \in BOOLEAN :
                 display' = [display EXCEPT !.load_error = cache.val.none /\ replay]
            /\ load_outcome' = IF cache.val.none THEN "hit_none" ELSE "hit_ok"
            /\ pc' = "extract"
            /\ UNCHANGED <<cache, fetches, loads>>
       ELSE LET r == cargar_modelo(variant, artifact) IN
            /\ fetches' = fetches + 1
            /\ IF r.raised
               THEN /\ display' = [display EXCEPT !.load_error = TRUE]
                    /\ load_outcome' = "miss_failed"
                    /\ pc' = "idle"
                    /\ UNCHANGED <<cache, loads, modelo_components>>
               ELSE /\ modelo_components' = [none |-> r.none, b |-> r.b]
                    /\ cache' = [filled |-> TRUE, val |-> [none |-> r.none, b |-> r.b]]
                    /\ loads' = IF r.none THEN loads ELSE loads + 1
                    /\ display' = [display EXCEPT !.load_error = r.error]
                    /\ load_outcome' = IF r.none THEN "miss_failed" ELSE "miss_ok"
                    /\ pc' = "extract"
    /\ UNCHANGED <<variant, artifact, now, inputs, work, trace, failed, last>>

\* variant of Extract without the test for None
Extract_no_none_check ==
    /\ pc = "extract"
    /\ IF modelo_components.none \/ Range(ComponentKeys) \subseteq modelo_components.b.keys
       THEN /\ pc' = "form"
            /\ UNCHANGED display
       ELSE /\ pc' = "idle"
            /\ display' = IF variant = "app2"
                          THEN [display EXCEPT !.load_error = TRUE]
                          ELSE [display EXCEPT !.crashed = TRUE]
    /\ UNCHANGED <<shared, modelo_components, inputs, work, trace, failed,
                   load_outcome, last>>

\* `if modelo_components is None: return` and the four subscripts; a missing
\* component is a KeyError, caught in app2 only
Extract ==
    /\ pc = "extract"
    /\ IF modelo_components.none
       THEN /\ pc' = "idle"
            /\ UNCHANGED display
       ELSE IF Range(ComponentKeys) \subseteq modelo_components.b.keys
            THEN /\ pc' = "form"
                 /\ UNCHANGED display
            ELSE /\ pc' = "idle"
                 /\ display' = IF variant = "app2"
                               THEN [display EXCEPT !.load_error = TRUE]
                               ELSE [display EXCEPT !.crashed = TRUE]
    /\ UNCHANGED <<shared, modelo_components, inputs, work, trace, failed,
                   load_outcome, last>>

\* the form block: the widgets are read and the dictionary is built
Form ==
    /\ pc = "form"
    /\ \E f \in FormsOf(variant), sub \in BOOLEAN :
         /\ form' = f
         /\ submitted' = sub
         /\ datos' = crear_campos_formulario(variant, f, now)
         /\ pc' = IF ~sub THEN "idle"
                  ELSE IF variant \in Validating THEN "validate" ELSE "prepare"
    /\ UNCHANGED <<shared, modelo_components, work, display, trace, failed,
                   load_outcome, last>>

\* variant of Validate that shows the errors and goes on
Validate_continue ==
    /\ pc = "validate"
    /\ LET errores == validar_datos_entrada(variant, datos) IN
         /\ display' = [display EXCEPT !.errores = errores]
         /\ pc' = "prepare"
    /\ UNCHANGED <<shared, modelo_components, inputs, work, trace, failed,
                   load_outcome, last>>

\* validar_datos_entrada and the early return on a non-empty list
Validate ==
    /\ pc = "validate"
    /\ LET errores == validar_datos_entrada(variant, datos) IN
         IF errores # <<>>
         THEN /\ display' = [display EXCEPT !.errores = errores]
              /\ pc' = "idle"
         ELSE /\ pc' = "prepare"
              /\ UNCHANGED display
    /\ UNCHANGED <<shared, modelo_components, inputs, work, trace, failed,
                   load_outcome, last>>

\* str(e) of the exception a stage raises in the current state, reduced to
\* what the text names: the kind of error, column names and a cell.
\*   encoder:  "y contains previously unseen labels: 'otros'"
\*   frame:    "['amt', 'unix_time'] not in index"
\*   scaler:   "could not convert string to float: 'abc'", or
\*             "X has 2 features, but ... is expecting 3 features"
\*   proba:    "index 1 is out of bounds for axis 0 with size 1"
error_message(stage) ==
    CASE stage = "encode" ->
           LET h == aplicar_encoders(encoders, transaccion_prep, <<>>).handed
           IN  [kind |-> "unseen_label", cols |-> <<>>, value |-> h[Len(h)][2]]
      [] stage = "select" ->
           [kind |-> "not_in_index",
            cols |-> missing_cols(transaccion_prep, selected_features),
            value |-> NoCell]
      [] stage = "scale" ->
           LET bad == SelectSeq(transaccion_prep.cols,
                                LAMBDA c : ~Numeric(transaccion_prep.val[c]))
           IN  IF bad # <<>>
               THEN [kind |-> "not_float", cols |-> <<>>,
                     value |-> transaccion_prep.val[bad[1]]]
               ELSE [kind |-> "n_features", cols |-> <<>>, value |-> NoCell]
      [] stage = "predict" -> [kind |-> "n_features", cols |-> <<>>, value |-> NoCell]
      [] OTHER -> [kind |-> "index", cols |-> <<>>, value |-> NoCell]

\* variant of ProcessingError that reports the error and still shows a result
ProcessingError_then_result(stage) ==
    /\ failed' = stage
    /\ display' = [display EXCEPT !.proc_error = TRUE, !.error = error_message(stage)]
    /\ pc' = "show"

\* the clause `except Exception as e: st.error(...)` entered from a stage
ProcessingError(stage) ==
    /\ failed' = stage
    /\ display' = [display EXCEPT !.proc_error = TRUE, !.error = error_message(stage)]
    /\ pc' = "idle"

\* the frame is built; debug and complete warn about selected features that
\* are no column of it and print the frame in a debug expander
Prepare ==
    /\ pc = "prepare"
    /\ trace' = Append(trace, "prepare")
    /\ LET fr == preparar_datos_para_modelo(variant, datos, now)
           missing == missing_cols(fr, selected_features)
       IN  /\ transaccion_prep' = fr
           /\ display' = IF variant \in Preparing
                         THEN [display EXCEPT
                                 !.warnings = IF missing # <<>> THEN Append(@, missing)
                                              ELSE @,
                                 !.dumps = Append(@, fr)]
                         ELSE display
    /\ pc' = next_stage(variant, "prepare")
    /\ UNCHANGED <<shared, modelo_components, inputs, transaccion_scaled, prediccion,
                   probabilidad, handed, failed, load_outcome, last>>

\* variant of Encode that also turns every text cell left without an encoder
\* into the number 0
Encode_all_text ==
    /\ pc = "encode"
    /\ trace' = Append(trace, "encode")
    /\ LET r == aplicar_encoders(encoders, transaccion_prep, <<>>) IN
         /\ handed' = r.handed
         /\ IF r.ok
            THEN /\ transaccion_prep' =
                      [r.frame EXCEPT !.val = [c \in DOMAIN r.frame.val |->
                          IF r.frame.val[c].k = "str" THEN Num(0) ELSE r.frame.val[c]]]
                 /\ pc' = next_stage(variant, "encode")
                 /\ UNCHANGED <<display, failed>>
            ELSE /\ ProcessingError("encode")
                 /\ UNCHANGED transaccion_prep
    /\ UNCHANGED <<shared, modelo_components, inputs, transaccion_scaled, prediccion,
                   probabilidad, load_outcome, last>>

\* variant of Encode in which an encoder that meets an unseen label is fitted
\* again with that label added
Encode_refit ==
    /\ pc = "encode"
    /\ trace' = Append(trace, "encode")
    /\ LET r == aplicar_encoders(encoders, transaccion_prep, <<>>) IN
         /\ handed' = r.handed
         /\ IF r.ok
            THEN /\ transaccion_prep' = r.frame
                 /\ pc' = next_stage(variant, "encode")
                 /\ UNCHANGED <<display, failed, modelo_components, cache>>
            ELSE LET bad == r.handed[Len(r.handed)]
                     refit == [i \in 1..Len(encoders) |->
                                 IF encoders[i].col = bad[1]
                                 THEN [encoders[i] EXCEPT !.classes = Append(@, bad[2].s)]
                                 ELSE encoders[i]]
                 IN  /\ ProcessingError("encode")
                     /\ modelo_components' =
                          [modelo_components EXCEPT !.b.encoders = refit]
                     /\ cache' = [cache EXCEPT !.val.b.encoders = refit]
                     /\ UNCHANGED transaccion_prep
    /\ UNCHANGED <<variant, artifact, now, fetches, loads, inputs, transaccion_scaled,
                   prediccion, probabilidad, load_outcome, last>>

\* the encoder loop over the copy of the frame
Encode ==
    /\ pc = "encode"
    /\ trace' = Append(trace, "encode")
    /\ LET r == aplicar_encoders(encoders, transaccion_prep, <<>>) IN
         /\ handed' = r.handed
         /\ IF r.ok
            THEN /\ transaccion_prep' = r.frame
                 /\ pc' = next_stage(variant, "encode")
                 /\ UNCHANGED <<display, failed>>
            ELSE /\ ProcessingError("encode")
                 /\ UNCHANGED transaccion_prep
    /\ UNCHANGED <<shared, modelo_components, inputs, transaccion_scaled, prediccion,
                   probabilidad, load_outcome, last>>

\* transaccion_prep = transaccion_prep[selected_features]
Select ==
    /\ pc = "select"
    /\ trace' = Append(trace, "select")
    /\ LET r == seleccionar(transaccion_prep, selected_features) IN
         IF r.ok
         THEN /\ transaccion_prep' = r.frame
              /\ pc' = next_stage(variant, "select")
              /\ display' = IF variant \in Preparing
                            THEN [display EXCEPT !.dumps = Append(@, r.frame)]
                            ELSE display
              /\ UNCHANGED failed
         ELSE /\ ProcessingError("select")
              /\ UNCHANGED transaccion_prep
    /\ UNCHANGED <<shared, modelo_components, inputs, transaccion_scaled, prediccion,
                   probabilidad, handed, load_outcome, last>>

\* transaccion_scaled = scaler.transform(transaccion_prep)
Scale ==
    /\ pc = "scale"
    /\ trace' = Append(trace, "scale")
    /\ last' = [valid |-> TRUE, form |-> form, row |-> transaccion_prep]
    /\ LET r == scaler_transform(scaler, transaccion_prep) IN
         IF r.ok
         THEN /\ transaccion_scaled' = r.row
              /\ pc' = next_stage(variant, "scale")
              /\ UNCHANGED <<display, failed>>
         ELSE /\ ProcessingError("scale")
              /\ UNCHANGED transaccion_scaled
    /\ UNCHANGED <<shared, modelo_components, inputs, transaccion_prep, prediccion,
                   probabilidad, handed, load_outcome>>

\* prediccion = modelo.predict(transaccion_scaled)[0]
Predict ==
    /\ pc = "predict"
    /\ trace' = Append(trace, "predict")
    /\ LET r == modelo_predict(modelo, transaccion_scaled) IN
         IF r.ok
         THEN /\ prediccion' = r.label
              /\ pc' = next_stage(variant, "predict")
              /\ UNCHANGED <<display, failed>>
         ELSE /\ ProcessingError("predict")
              /\ UNCHANGED prediccion
    /\ UNCHANGED <<shared, modelo_components, inputs, transaccion_prep,
                   transaccion_scaled, probabilidad, handed, load_outcome, last>>

\* variant of Proba that asks for the probability of the row as it was
\* before scaling
Proba_from_unscaled ==
    /\ pc = "proba"
    /\ trace' = Append(trace, "proba")
    /\ IF ~modelo.has_proba
       THEN /\ probabilidad' = NoProb
            /\ pc' = next_stage(variant, "proba")
            /\ UNCHANGED <<display, failed>>
       ELSE LET raw == [i \in 1..Len(transaccion_prep.cols) |->
                         AsFloat(transaccion_prep.val[transaccion_prep.cols[i]])]
                r == modelo_predict_proba(modelo, raw)
            IN  IF r.ok
                THEN /\ probabilidad' = [has |-> TRUE, p |-> r.p]
                     /\ pc' = next_stage(variant, "proba")
                     /\ UNCHANGED <<display, failed>>
                ELSE /\ ProcessingError("proba")
                     /\ UNCHANGED probabilidad
    /\ UNCHANGED <<shared, modelo_components, inputs, transaccion_prep,
                   transaccion_scaled, prediccion, handed, load_outcome, last>>

\* probabilidad = None; if hasattr(modelo, 'predict_proba'): ...[0][1]
Proba ==
    /\ pc = "proba"
    /\ trace' = Append(trace, "proba")
    /\ IF ~modelo.has_proba
       THEN /\ probabilidad' = NoProb
            /\ pc' = next_stage(variant, "proba")
            /\ UNCHANGED <<display, failed>>
       ELSE LET r == modelo_predict_proba(modelo, transaccion_scaled) IN
            IF r.ok
            THEN /\ probabilidad' = [has |-> TRUE, p |-> r.p]
                 /\ pc' = next_stage(variant, "proba")
                 /\ UNCHANGED <<display, failed>>
            ELSE /\ ProcessingError("proba")
                 /\ UNCHANGED probabilidad
    /\ UNCHANGED <<shared, modelo_components, inputs, transaccion_prep,
                   transaccion_scaled, prediccion, handed, load_outcome, last>>

\* variant of banner_of that takes every label other than 0 for fraud
banner_of_nonzero(label) == IF label # 0 THEN "fraud" ELSE "safe"

\* the banner mostrar_resultado chooses for a predicted label
banner_of(label) == IF label = 1 THEN "fraud" ELSE "safe"

\* variant of MostrarResultado that shows the cells of the frame the scaler
\* was given in place of the entries of datos of the same name
MostrarResultado_shows_frame ==
    /\ pc = "show"
    /\ trace' = Append(trace, "show")
    /\ display' = [display EXCEPT !.banners = @ \cup {banner_of(prediccion)},
                                  !.prob = probabilidad,
                                  !.datos = [key \in DOMAIN datos |->
                                               IF key \in Range(transaccion_prep.cols)
                                               THEN transaccion_prep.val[key]
                                               ELSE datos[key]]]
    /\ pc' = "idle"
    /\ UNCHANGED <<shared, modelo_components, inputs, work, failed, load_outcome, last>>

\* mostrar_resultado (app2: the inline if/else): one banner, the
\* probability metric when a probability was computed, and the entries of
\* datos
MostrarResultado ==
    /\ pc = "show"
    /\ trace' = Append(trace, "show")
    /\ display' = [display EXCEPT !.banners = @ \cup {banner_of(prediccion)},
                                  !.prob = probabilidad,
                                  !.datos = datos]
    /\ pc' = "idle"
    /\ UNCHANGED <<shared, modelo_components, inputs, work, failed, load_outcome, last>>

Next ==
    \/ Tick
    \/ StartRun
    \/ CargarModelo
    \/ Extract
    \/ Form
    \/ Validate
    \/ Prepare
    \/ Encode
    \/ Select
    \/ Scale
    \/ Predict
    \/ Proba
    \/ MostrarResultado

Spec == Init /\ [][Next]_vars

(* ------------------------------ properties ----------------------------- *)
\* the encoder of the bundle for a column that has one
EncoderFor(col) == CHOOSE e \in Range(encoders) : e.col = col
KnownTo(col, v) == v.k = "str" /\ v.s \in Range(EncoderFor(col).classes)
Entered(stage) == stage \in Range(trace)

\* C1: no cell outside an encoder's known labels is ever given to that
\* encoder's transform, and the encoding stage never raises: an unknown
\* label is replaced by the fallback label and the evaluation goes on.
C1_UnknownCategoryFallsBack ==
    /\ \A i \in 1..Len(handed) : KnownTo(handed[i][1], handed[i][2])
    /\ failed # "encode"

\* C2: the row given to scaler.transform has exactly the columns named by
\* selected_features, one per entry and in that order, and no other field.
C2_ScalerRowIsSelectedFeatures ==
    Entered("scale") =>
        /\ last.row.cols = selected_features
        /\ DOMAIN last.row.val = Range(selected_features)

\* C2 witness: the scaler was called by the complete variant, whose frame has
\* 17 columns with category before zip, for selected_features zip, category.
C2_Witness ==
    /\ Entered("scale")
    /\ variant = "complete"
    /\ selected_features = <<"zip", "category">>
    /\ last.row.cols = <<"zip", "category">>

\* C3: a run that reached feature selection with a selected feature absent
\* from the frame fills in a default, records one anomaly and shows a verdict.
C3_MissingFeatureDefaulted ==
    (pc = "idle" /\ Entered("select")
        /\ missing_cols(transaccion_prep, selected_features) # <<>>) =>
        /\ ~display.proc_error
        /\ display.banners # {}
        /\ Len(display.warnings) = 1

\* C4: an evaluation whose form input equals that of the previous evaluation
\* gives the scaler the same row as the previous one did.
C4_SameFormSameRow ==
    (pc = "scale" /\ last.valid /\ last.form = form) => transaccion_prep = last.row

\* C5: once the result is shown, exactly one banner is on the page: the fraud
\* banner when the predicted label is 1, the safe banner for any other label.
C5_FraudBannerIffLabelOne ==
    Entered("show") =>
        /\ Cardinality(display.banners) = 1
        /\ ("fraud" \in display.banners) <=> (prediccion = 1)
        /\ ("safe" \in display.banners) <=> (prediccion # 1)

\* C5 witness: a label other than 0 and 1 was predicted and shown as safe.
C5_Witness ==
    /\ Entered("show")
    /\ prediccion = 2
    /\ display.banners = {"safe"}

\* C6: when a stage of the evaluation has raised, it is the last stage this
\* run entered, the run is over, no banner and no probability are on the page
\* and the processing error is.
C6_FailureEndsEvaluation ==
    failed # "" =>
        /\ pc = "idle"
        /\ trace[Len(trace)] = failed
        /\ display.banners = {}
        /\ ~display.prob.has
        /\ display.proc_error

\* C6 witness: predict returned a label and predict_proba then raised.
C6_Witness ==
    /\ failed = "proba"
    /\ Entered("predict")
    /\ display.proc_error

\* the order in which main enters the stages
StageOrder(v) ==
    IF v \in WithProba
    THEN <<"prepare", "encode", "select", "scale", "predict", "proba", "show">>
    ELSE <<"prepare", "encode", "select", "scale", "predict", "show">>

C8_IncompleteBundleNeverReturned ==
    /\ ~modelo_components.none => Range(ComponentKeys) \subseteq modelo_components.b.keys
    /\ (cache.filled /\ ~cache.val.none) => Range(ComponentKeys) \subseteq cache.val.b.keys

\* C9: a run whose load failed shows the load error; a run that got no
\* bundle (failed now, or failed before and cached) ends before the form: no
\* dictionary is built, no stage is entered, nothing is encoded, scaled or
\* predicted and no result is shown.
C9_LoadFailureEndsRun ==
    /\ load_outcome = "miss_failed" => display.load_error
    /\ load_outcome \in {"miss_failed", "hit_none"} =>
        /\ pc \in {"extract", "idle"}
        /\ datos = <<>>
        /\ trace = <<>>
        /\ handed = <<>>
        /\ transaccion_scaled = <<>>
        /\ display.banners = {}

\* C9 witness: the artifact could not be deserialized and the run is over.
C9_Witness ==
    /\ load_outcome = "miss_failed"
    /\ artifact.status = "corrupt"
    /\ pc = "idle"
    /\ display.load_error

\* C10 as stated: over any sequence of runs the body of cargar_modelo is
\* executed at most once.
C10_FetchedAtMostOnce == fetches <= 1

\* C10 amended: once a load has succeeded, a call of cargar_modelo returns the
\* cached bundle, the body is not executed again and the cache entry stays,
\* so at most one load succeeds; a load that raised (app2) is not cached and
\* is attempted again by the next run.
C10_CachedAfterSuccess ==
    [][ /\ (cache.filled /\ ~cache.val.none) =>
            /\ cache' = cache
            /\ fetches' = fetches
            /\ loads' = loads
            /\ (pc = "cargar_modelo" => modelo_components' = cache.val)
        /\ loads' <= 1 ]_vars

\* C10 witness: a later run was served from the cache after one fetch.
C10_Witness ==
    /\ load_outcome = "hit_ok"
    /\ fetches = 1
    /\ modelo_components = cache.val

\* C11: an evaluation, whether it ends in a verdict or in an error, leaves
\* the shared bundle unchanged: once the cache holds the bundle no step
\* changes it, and from the extraction of the components to the end of the
\* evaluation the components the run works with stay the same, so the
\* classifier, the scaler, every encoder and selected_features the next
\* evaluation receives are those of the evaluation before
C11_BundleUnchanged ==
    [][ /\ cache.filled => cache' = cache
        /\ pc \notin {"idle", "cargar_modelo"} =>
              modelo_components' = modelo_components ]_vars

\* a second evaluation has ended in an encoder error after a first one
\* reached the scaler, and the cache still holds the artifact's bundle
C11_Witness ==
    /\ failed = "encode"
    /\ last.valid
    /\ cache.filled /\ ~cache.val.none
    /\ cache.val.b = artifact.b
    /\ modelo_components = cache.val

\* C12: when selected_features has a different number of entries than the
\* scaler was fitted on, an evaluation that reaches the scaler ends there in
\* an error about the number of features (unless a cell is no number, which
\* the scaler reports first); the scaler was handed exactly the
\* selected_features columns, no scaled row exists, the classifier is never
\* called and no verdict is shown
C12_WidthMismatchIsAnError ==
    (Entered("scale") /\ Len(selected_features) # scaler.n_features_in) =>
        /\ failed = "scale"
        /\ display.proc_error
        /\ transaccion_prep.cols = selected_features
        /\ (\A c \in Range(transaccion_prep.cols) : Numeric(transaccion_prep.val[c]))
              => display.error.kind = "n_features"
        /\ transaccion_scaled = <<>>
        /\ ~Entered("predict")
        /\ display.banners = {}
        /\ ~display.prob.has

\* the scaler has refused a row of numbers whose width is not its own
C12_Witness ==
    /\ failed = "scale"
    /\ Len(selected_features) # scaler.n_features_in
    /\ display.error.kind = "n_features"
    /\ display.banners = {}

\* C13: when the value of a feature that reaches the scaler is text that
\* is no number, the evaluation ends with an error that identifies the
\* offending column and the raw value, and no verdict is shown
C13_TypeErrorNamesColumn ==
    (failed = "scale" /\ display.error.kind = "not_float") =>
        /\ display.banners = {}
        /\ \E c \in Range(transaccion_prep.cols) :
              /\ ~Numeric(transaccion_prep.val[c])
              /\ display.error.value = transaccion_prep.val[c]
              /\ c \in Range(display.error.cols)

\* C14: the probability shown with a verdict is the classifier's
\* predict_proba of the very row predict was given: from the call of
\* predict to the display of the result the scaled row, the frame and the
\* components do not change, the probability computed is that of the
\* scaled row whose label is prediccion, and the probability shown is the
\* one computed
C14_ProbabilityOfPredictedRow ==
    [][ /\ pc \in {"predict", "proba", "show"} =>
              /\ transaccion_scaled' = transaccion_scaled
              /\ transaccion_prep' = transaccion_prep
              /\ modelo_components' = modelo_components
        /\ (pc = "proba" /\ probabilidad'.has) =>
              /\ probabilidad'.p = modelo_predict_proba(modelo, transaccion_scaled).p
              /\ prediccion = modelo_predict(modelo, transaccion_scaled).label
              /\ prediccion' = prediccion
        /\ pc = "show" => display'.prob = probabilidad ]_vars

\* a fraud verdict has been shown with its probability
C14_Witness ==
    /\ Entered("show")
    /\ display.prob.has
    /\ display.prob.p = modelo_predict_proba(modelo, transaccion_scaled).p
    /\ "fraud" \in display.banners

C16_DefaultsReportedWithVerdict ==
    Entered("show") =>
        \A c \in defaulted(variant) \cap Range(selected_features) :
            \E i \in 1..Len(display.warnings) : c \in Range(display.warnings[i])

\* C18: when the encoders have been applied without error, every cell
\* handed to an encoder has been replaced by an integer code that is a
\* position in the encoder's classes_ holding that very label (the inverse
\* mapping gives the label back), two distinct known labels of an encoder
\* have distinct codes, and a category entered again gets the code it got
\* in the evaluation before
C18_KnownLabelRoundTrips ==
    [][ (pc = "encode" /\ failed' # "encode") =>
          /\ \A i \in 1..Len(handed') :
                LET col  == handed'[i][1]
                    cell == handed'[i][2]
                    enc  == EncoderFor(col)
                    code == transaccion_prep'.val[col]
                IN  /\ code.k = "num"
                    /\ code.n \in 0..(Len(enc.classes) - 1)
                    /\ enc.classes[code.n + 1] = cell.s
                    /\ (/\ col = "category"
                        /\ last.valid
                        /\ "category" \in Range(last.row.cols)
                        /\ last.form.category = form.category)
                          => last.row.val["category"] = code
          /\ \A e \in Range(encoders) : \A a, b \in Range(e.classes) :
                a # b => encoder_transform(e, Str(a)).code # encoder_transform(e, Str(b)).code
      ]_vars

\* the second known label of the category encoder has been encoded to 1 in
\* an evaluation that follows one which reached the scaler with that label
C18_Witness ==
    /\ pc = "select"
    /\ Len(handed) > 0
    /\ handed[1][2] = Str("shopping_pos")
    /\ transaccion_prep.val["category"] = Num(1)
    /\ last.valid
    /\ "category" \in Range(last.row.cols)
    /\ last.form.category = "shopping_pos"

\* C19: in the validating variants a submitted run whose validation result
\* is non-empty shows exactly the listed errors and ends: no stage of the
\* try block is entered, no frame or scaled row exists, no verdict and no
\* processing error is shown; and a run is at or past the preparation of
\* the frame only if its validation result is empty
C19_InvalidFormEndsRun ==
    (variant \in Validating /\ submitted /\ pc # "validate") =>
        LET errores == validar_datos_entrada(variant, datos) IN
          /\ errores # <<>> =>
                /\ pc = "idle"
                /\ display.errores = errores
                /\ trace = <<>>
                /\ transaccion_prep = NoFrame
                /\ transaccion_scaled = <<>>
                /\ display.banners = {}
                /\ ~display.proc_error
          /\ (pc = "prepare" \/ Entered("prepare") \/ Entered("encode")) =>
                errores = <<>> /\ display.errores = <<>>

\* a run has ended on a form with several violations, all of them shown
C19_Witness ==
    /\ variant \in Validating
    /\ submitted
    /\ pc = "idle"
    /\ Len(display.errores) >= 2
    /\ display.errores = validar_datos_entrada(variant, datos)
    /\ trace = <<>>

\* C20: the list validar_datos_entrada returns is empty exactly when the
\* amount is positive and every required text is non-blank after strip;
\* it holds one message per violated rule and no other, in the order of
\* the checks, so an amount of 0 is rejected with the first message; the
\* call leaves datos as it was, and what is shown is the list returned
C20_ValidationRules ==
    [][ pc = "validate" =>
          LET checks == TextChecks(variant)
              all == <<"El monto debe ser mayor que 0">> \o
                       [i \in 1..Len(checks) |-> checks[i][2]]
              violated(i) == IF i = 1 THEN datos["amount"].n <= 0
                             ELSE Strip(datos[checks[i - 1][1]].s) = ""
              r == validar_datos_entrada(variant, datos)
          IN  /\ (r = <<>>) <=>
                    /\ datos["amount"].n > 0
                    /\ \A i \in 1..Len(checks) : datos[checks[i][1]].s \notin {"", " "}
              /\ Len(r) = Cardinality({i \in 1..Len(all) : violated(i)})
              /\ \A i \in 1..Len(all) : violated(i) <=> all[i] \in Range(r)
              /\ \A j, k \in 1..Len(r) : j < k => IndexOf(all, r[j]) < IndexOf(all, r[k])
              /\ datos["amount"].n = 0 => r[1] = all[1]
              /\ datos' = datos
              /\ display'.errores = r
      ]_vars

\* an amount of 0 with a blank merchant or name and a blank postal code has
\* been rejected with the three messages in the order of the checks
C20_Witness ==
    /\ pc = "idle"
    /\ submitted
    /\ datos # <<>>
    /\ datos["amount"].n = 0
    /\ Len(display.errores) >= 3
    /\ display.errores[1] = "El monto debe ser mayor que 0"
    /\ "El codigo postal es requerido" \in Range(display.errores)

\* C21: the encoding loop hands to an encoder exactly the frame columns
\* that are a key of encoders, each once: when it ends without error every
\* such column holds its code, every other column holds the value it had,
\* the columns are those of the prepared frame, nothing is shown and the
\* selection follows; an encoder whose column is no frame column is passed
\* over, so the loop fails only on a cell its encoder does not know
C21_EncodesExactlySharedColumns ==
    [][ pc = "encode" =>
          LET keys   == {encoders[i].col : i \in 1..Len(encoders)}
              shared_cols == keys \cap Range(transaccion_prep.cols)
              given  == {handed'[i][1] : i \in 1..Len(handed')}
          IN  /\ given \subseteq shared_cols
              /\ Len(handed') = Cardinality(given)
              /\ \A i \in 1..Len(handed') :
                    handed'[i][2] = transaccion_prep.val[handed'[i][1]]
              /\ failed' # "encode" =>
                    /\ given = shared_cols
                    /\ transaccion_prep'.cols = transaccion_prep.cols
                    /\ \A c \in Range(transaccion_prep.cols) :
                          transaccion_prep'.val[c] =
                            IF c \in keys
                            THEN Num(encoder_transform(EncoderFor(c),
                                                       transaccion_prep.val[c]).code)
                            ELSE transaccion_prep.val[c]
                    /\ display' = display
                    /\ pc' = "select"
              /\ failed' = "encode" =>
                    /\ ~KnownTo(handed'[Len(handed')][1], handed'[Len(handed')][2])
                    /\ transaccion_prep' = transaccion_prep
      ]_vars

\* the loop has ended without error on a frame that lacks the column of the
\* first encoder: one column was encoded, the text of zip is as entered
C21_Witness ==
    /\ pc = "select"
    /\ Len(encoders) = 2
    /\ encoders[1].col \notin Range(transaccion_prep.cols)
    /\ Len(handed) = 1
    /\ handed[1][1] = "category"
    /\ transaccion_prep.val["category"].k = "num"
    /\ transaccion_prep.val["zip"] = Str(form.zip)

\* C22: in the variants whose cargar_modelo returns None on a failure, the
\* None is cached: the call that fails fills the cache with it, and from
\* then on the cache entry stays, no further download or read is
\* attempted, every call returns None, and every run ends before the form,
\* so no stage is entered and no verdict is shown
C22_FailedLoadIsCached ==
    [][ /\ (/\ variant # "app2"
            /\ pc = "cargar_modelo"
            /\ ~cache.filled
            /\ cargar_modelo(variant, artifact).none) =>
              /\ cache'.filled
              /\ cache'.val.none
              /\ fetches' = fetches + 1
        /\ (cache.filled /\ cache.val.none) =>
              /\ variant # "app2"
              /\ cache' = cache
              /\ fetches' = fetches
              /\ loads' = loads
              /\ pc = "cargar_modelo" => modelo_components'.none
              /\ pc' \in {"idle", "cargar_modelo", "extract"}
              /\ ~submitted'
              /\ trace' = <<>>
              /\ display'.banners = {}
      ]_vars

\* a run after the failed one was handed the cached None and has ended; the
\* source was asked once
C22_Witness ==
    /\ variant # "app2"
    /\ cache.filled
    /\ cache.val.none
    /\ load_outcome = "hit_none"
    /\ pc = "idle"
    /\ fetches = 1

\* C23: a submitted run that has ended shows exactly one of: validation
\* errors, a verdict, a processing error; a verdict is one banner; no state
\* shows a verdict together with a processing error or with validation
\* errors; and the data shown with a verdict are the dict made from the
\* form, whose amount, category and postal code are the values entered
C23_ExactlyOneOutcome ==
    LET invalid == display.errores # <<>>
        verdict == display.banners # {}
        error   == display.proc_error
    IN  /\ ~(verdict /\ error)
        /\ ~(verdict /\ invalid)
        /\ ~(error /\ invalid)
        /\ (submitted /\ pc = "idle") => (invalid \/ verdict \/ error)
        /\ (invalid \/ verdict \/ error) => submitted
        /\ error <=> failed # ""
        /\ verdict =>
              /\ Cardinality(display.banners) = 1
              /\ display.datos = datos
              /\ display.datos["amount"] = Num(form.amount)
              /\ display.datos["category"] = Str(form.category)
              /\ display.datos["zip"] = Str(form.zip)

\* a verdict has been shown for a form whose category was encoded to 1 and
\* whose postal code was read as a number by the scaler
C23_Witness ==
    /\ pc = "idle"
    /\ submitted
    /\ display.banners # {}
    /\ ~display.proc_error
    /\ selected_features = <<"zip", "category">>
    /\ last.row.val["category"] = Num(1)
    /\ display.datos["category"] = Str("shopping_pos")
    /\ display.datos["zip"] = Str("10001")

====
